---- MODULE Spec2Model ----
(***************************************************************************)
(* Inventory change-detection and notification-dispatch pipeline of        *)
(* rapid-response-ecom: the timer-triggered inventory monitor              *)
(* (inventoryMonitor / checkProductInventory), the stores and queues it    *)
(* writes, and the Service Bus triggered notification sender.              *)
(***************************************************************************)
EXTENDS Integers, Sequences, FiniteSets, Bags, TLC

\* ------------------------------------------------------------------ bounds
MaxTicks == 2
MaxChannels == 2
MaxSubscriptions == 2
MaxNameLen == 40
MaxUrlLen == 150
MaxLocationLen == 3
MaxCatalogue == 6
MaxPatches == 1

\* ------------------------------------------------------- program constants
MaxAttempts == 3
MaxDeliveryCount == 3

\* rateLimit.requestsPerSecond the monitor configures for the Best Buy adapter.
RequestsPerSecond == 5

\* ----------------------------------------------------------- model values
Products == {1, 2}
Undefined == -1

\* The image the retailer lists for a product ("" when it lists none).
ImageOf(p) == IF p = 1 THEN "img" ELSE ""

\* The monitored products as the CRUD layer stored them.
StoreLocationsOf(p) == IF p = 2 THEN <<"s1">> ELSE <<>>
SkuOf(p) == IF p = 1 THEN "sku1" ELSE "sku2"
NameOf(p) == IF p = 1 THEN "name1" ELSE "name2"

VARIABLES
  clock,          \* Date.now(), counted in timer periods
  apiKey,         \* process.env.BESTBUY_API_KEY is non-empty
  products,       \* Cosmos container 'products': id -> record
  history,        \* Cosmos container 'inventory-history', per partition key
  inventoryEvents,\* messages sent to queue 'inventory-events' (a bag)
  notifications,  \* messages sent to queue 'notifications' (a bag)
  tick,           \* the running invocation of inventoryMonitor
  chk,            \* per product: the promise of checkProductInventory
  acsEndpoint,    \* process.env.ACS_ENDPOINT is set
  acsFromNumber,  \* process.env.ACS_SMS_FROM_NUMBER is set
  preferences,    \* Cosmos container 'user-preferences', item 'default'
  request,        \* the NotificationRequest the transport holds
  delivery,       \* the transport's record of that message
  disp,           \* the running invocation of notificationSender
  attempts,       \* what the finished invocations of notificationSender logged
  sms,            \* one call of formatAlertMessage: its arguments and its text
  patch           \* the running invocation of PATCH /api/products/{id}

monitorVars == <<clock, apiKey, products, history, inventoryEvents, notifications, tick, chk>>
dispatchVars == <<acsEndpoint, acsFromNumber, preferences, request, delivery, disp, attempts>>
smsVars == <<sms>>
crudVars == <<patch>>

\* ------------------------------------------------------------ pure helpers

\* A differ that looks at the online channel only.
isAvailableOnlineOnly(status) == status.online.available

\* isAvailable: online OR any store available.
isAvailable(status) ==
  status.online.available \/ \E i \in DOMAIN status.stores : status.stores[i].available

getProductUrl(sku) == <<"https://www.bestbuy.com/site/", sku, ".p">>
getAddToCartUrl(sku) == <<"https://api.bestbuy.com/click/-/", sku, "/cart">>

\* InventoryProviderFactory.create + getProvider: the retailers that have an
\* adapter registered; only Best Buy, and only with an API key.
RegisteredRetailers(key) == IF key THEN {"bestbuy"} ELSE {}

\* A factory that hands out an adapter for any retailer.
getProviderAlways(key, retailer) == TRUE

getProvider(key, retailer) == retailer \in RegisteredRetailers(key)

\* createProduct: the record the CRUD layer stores for a new product.
NewProduct(p, active) ==
  [ id |-> p, retailer |-> "bestbuy", sku |-> SkuOf(p), name |-> NameOf(p),
    isActive |-> active, priority |-> "normal",
    storeLocations |-> StoreLocationsOf(p),
    currentStatus |-> [online |-> [available |-> FALSE], stores |-> <<>>],
    lastCheckedAt |-> 0, lastStatusChangeAt |-> Undefined,
    imageUrl |-> "",
    productUrl |-> getProductUrl(SkuOf(p)),
    addToCartUrl |-> getAddToCartUrl(SkuOf(p)),
    createdAt |-> 0, updatedAt |-> 0 ]

\* getActiveProducts: SELECT * FROM c WHERE c.isActive = true
getActiveProducts(store) == {p \in DOMAIN store : store[p].isActive}

\* What BestBuyInventoryProvider.checkInventory can return for a product.
StoreResults(p) ==
  IF Len(StoreLocationsOf(p)) > 0
  THEN {<<[storeId |-> StoreLocationsOf(p)[1], available |-> b]>> : b \in BOOLEAN}
  ELSE {<<>>}

CheckResults(p) ==
  { [ status |-> [online |-> [available |-> o], stores |-> s],
      productUrl |-> getProductUrl(SkuOf(p)),
      addToCartUrl |-> getAddToCartUrl(SkuOf(p)),
      imageUrl |-> ImageOf(p) ] : o \in BOOLEAN, s \in StoreResults(p) }

NoResult ==
  [ status |-> [online |-> [available |-> FALSE], stores |-> <<>>],
    productUrl |-> <<>>, addToCartUrl |-> <<>>, imageUrl |-> "" ]

NoEntry ==
  [ productId |-> 0, eventType |-> "none", timestamp |-> Undefined,
    online |-> FALSE, stores |-> <<>>, durationInStockMs |-> Undefined ]

\* getLatestHistoryEntry: SELECT TOP 1 ... ORDER BY c.timestamp DESC.
\* The candidates are the entries of the partition with the greatest timestamp.
LatestEntries(h) ==
  { h[i] : i \in { j \in DOMAIN h : \A k \in DOMAIN h : h[k].timestamp <= h[j].timestamp } }

\* A duration computed against a previous entry of the wrong event type.
DurationInStockWrongType(previousEntry, nowAvailable, now) ==
  IF previousEntry # NoEntry /\ previousEntry.eventType = "out_of_stock" /\ ~nowAvailable
  THEN now - previousEntry.timestamp
  ELSE Undefined

\* durationInStockMs of a new history entry.
DurationInStock(previousEntry, nowAvailable, now) ==
  IF previousEntry # NoEntry /\ previousEntry.eventType = "in_stock" /\ ~nowAvailable
  THEN now - previousEntry.timestamp
  ELSE Undefined

\* An entry typed by the verdict the check started from.
HistoryEntryOfPreviousVerdict(c) ==
  [ productId |-> c.product.id,
    eventType |-> IF c.wasAvailable THEN "in_stock" ELSE "out_of_stock",
    timestamp |-> c.now,
    online |-> c.result.status.online.available,
    stores |-> c.result.status.stores,
    durationInStockMs |-> DurationInStock(c.previousEntry, c.nowAvailable, c.now) ]

HistoryEntryOf(c) ==
  [ productId |-> c.product.id,
    eventType |-> IF c.nowAvailable THEN "in_stock" ELSE "out_of_stock",
    timestamp |-> c.now,
    online |-> c.result.status.online.available,
    stores |-> c.result.status.stores,
    durationInStockMs |-> DurationInStock(c.previousEntry, c.nowAvailable, c.now) ]

EventOf(c) ==
  [ eventType |-> IF c.nowAvailable THEN "inventory.available" ELSE "inventory.unavailable",
    timestamp |-> c.now,
    productId |-> c.product.id,
    online |-> c.result.status.online.available,
    stores |-> c.result.status.stores ]

\* A check that enqueues a notification for every transition.
ShouldNotifyAlways(c) == TRUE

\* The check enqueues a notification only for an "in stock" transition.
ShouldNotify(c) == c.nowAvailable

NotificationRequestOf(c) ==
  [ timestamp |-> c.now, triggerEvent |-> EventOf(c), channels |-> <<"sms">>,
    attemptCount |-> 0, maxAttempts |-> MaxAttempts ]

\* --------------------------------------------------------------- SMS text
\* Strings are sequences of UTF-16 code units, the units String.length counts.

\* "🚨 IN STOCK": the emoji is a surrogate pair.
Banner == <<55357, 57000, 32, 73, 78, 32, 83, 84, 79, 67, 75>>
AtText == <<32, 97, 116, 32>>                        \* " at "
OnlineText == <<32, 111, 110, 108, 105, 110, 101>>   \* " online"
BangNewline == <<33, 10>>                            \* "!\n"
Newline == <<10>>                                    \* "\n"
Ellipsis == <<46, 46, 46>>                           \* "..."

\* The length the text is budgeted to.
SmsLimit == 160

Min(a, b) == IF a < b THEN a ELSE b
Max(a, b) == IF a > b THEN a ELSE b

\* String.prototype.substring(start, end): both indices are clamped to
\* [0, length] and swapped when start > end.
Substring(str, start, end) ==
  LET a == Min(Max(start, 0), Len(str))
      b == Min(Max(end, 0), Len(str))
  IN SubSeq(str, Min(a, b) + 1, Max(a, b))

\* A formatter that cuts the name without leaving room for the ellipsis.
TruncatedNameNoRoomForEllipsis(productName, maxProductLength) ==
  IF Len(productName) > maxProductLength
  THEN Substring(productName, 0, maxProductLength) \o Ellipsis
  ELSE productName

\* truncatedName of formatAlertMessage.
TruncatedName(productName, maxProductLength) ==
  IF Len(productName) > maxProductLength
  THEN Substring(productName, 0, maxProductLength - 3) \o Ellipsis
  ELSE productName

\* SmsNotificationService.formatAlertMessage; an absent location and the empty
\* string are both falsy and give " online".
formatAlertMessage(productName, retailer, addToCartUrl, location) ==
  LET locationText == IF location # <<>> THEN AtText \o location ELSE OnlineText
      baseMessage == Banner \o locationText \o BangNewline \o productName \o Newline
      urlText == Newline \o addToCartUrl
      maxProductLength == SmsLimit - Len(baseMessage) - Len(urlText) + Len(productName)
      truncatedName == TruncatedName(productName, maxProductLength)
  IN Banner \o locationText \o BangNewline \o truncatedName \o Newline \o addToCartUrl

\* The strings a call of formatAlertMessage is given, by length: a product
\* name, an add-to-cart URL and a store name (none when the product is
\* available online only). Every code unit of a string differs from the others.
NameOfLength(n) == [i \in 1..n |-> 1000 + i]
UrlOfLength(n) == [i \in 1..n |-> 2000 + i]
LocationOfLength(n) == [i \in 1..n |-> 3000 + i]

IdleSms ==
  [ pc |-> "idle", productName |-> <<>>, addToCartUrl |-> <<>>, location |-> <<>>,
    text |-> <<>> ]

\* ------------------------------------------------------------------- state

\* getUserPreferences resolves to null when the item does not exist.
NoPreferences ==
  [ found |-> FALSE,
    sms |-> [enabled |-> FALSE, phoneNumber |-> ""],
    push |-> [enabled |-> FALSE, subscriptions |-> 0] ]

\* The preference records the CRUD layer can store (subscriptions by number).
StoredPreferences ==
  { [ found |-> TRUE,
      sms |-> [enabled |-> se, phoneNumber |-> ph],
      push |-> [enabled |-> pe, subscriptions |-> n] ] :
    se \in BOOLEAN, ph \in {"", "+15550100"}, pe \in BOOLEAN, n \in 0..MaxSubscriptions }

NoRequest ==
  [ timestamp |-> Undefined,
    triggerEvent |-> [eventType |-> "none", timestamp |-> Undefined, productId |-> 0,
                      online |-> FALSE, stores |-> <<>>],
    channels |-> <<>>, attemptCount |-> 0, maxAttempts |-> 0 ]

IdleDispatch ==
  [ pc |-> "idle", preferences |-> NoPreferences, i |-> 0, results |-> <<>>,
    attempted |-> <<>>, smsSends |-> 0, outcome |-> "none", error |-> "" ]

IdleCheck(p) ==
  [ pc |-> "idle", product |-> NewProduct(p, TRUE), result |-> NoResult,
    now |-> Undefined, wasAvailable |-> FALSE, nowAvailable |-> FALSE,
    statusChanged |-> FALSE, previousEntry |-> NoEntry, error |-> "" ]

\* An UpdateProductRequest: the fields the body carries, and their values.
NoBody ==
  [ fields |-> {}, name |-> "", priority |-> "normal", storeLocations |-> <<>>,
    isActive |-> FALSE ]

IdlePatch ==
  [ pc |-> "idle", no |-> 0, id |-> 0, body |-> NoBody,
    product |-> NewProduct(0, FALSE), outcome |-> "none" ]

IdleTick ==
  [ pc |-> "idle", no |-> 0, batch |-> {}, succeeded |-> 0, failed |-> 0,
    failedProducts |-> {}, outcome |-> "none" ]

MonitorInit ==
  /\ clock = 0
  /\ apiKey \in BOOLEAN
  /\ \E act \in [Products -> BOOLEAN] : products = [p \in Products |-> NewProduct(p, act[p])]
  /\ history = [p \in Products |-> <<>>]
  /\ inventoryEvents = EmptyBag
  /\ notifications = EmptyBag
  /\ tick = IdleTick
  /\ chk = [p \in Products |-> IdleCheck(p)]

Init ==
  /\ MonitorInit
  /\ acsEndpoint = TRUE
  /\ acsFromNumber = TRUE
  /\ preferences = NoPreferences
  /\ request = NoRequest
  /\ delivery = [state |-> "empty", deliveryCount |-> 0]
  /\ disp = IdleDispatch
  /\ attempts = <<>>
  /\ sms = IdleSms
  /\ patch = IdlePatch

Settled(c) == c.pc \in {"fulfilled", "rejected"}

\* A tick that does not await its checks.
AllSettledNotAwaited(batch) == TRUE

\* Promise.allSettled over the checks of the batch.
AllSettled(batch) == \A p \in batch : Settled(chk[p])

\* A check that works on the product as it was created, not as it is stored.
StartedCheckFromCreation(p, key, store) ==
  [ IdleCheck(p) EXCEPT
      !.product = NewProduct(p, TRUE),
      !.pc = IF getProvider(key, store[p].retailer) THEN "checkInventory" ELSE "fulfilled",
      !.error = IF getProvider(key, store[p].retailer) THEN "" ELSE "skipped" ]

\* checkProductInventory up to its first await: resolve the provider, return
\* at once when there is none, otherwise call provider.checkInventory.
StartedCheck(p, key, store) ==
  [ IdleCheck(p) EXCEPT
      !.product = store[p],
      !.pc = IF getProvider(key, store[p].retailer) THEN "checkInventory" ELSE "fulfilled",
      !.error = IF getProvider(key, store[p].retailer) THEN "" ELSE "skipped" ]

\* ----------------------------------------------------------------- actions

\* The timer fires (ticks never overlap, and one timer period has passed since
\* the previous one; the checks of one tick read the same instant), the active
\* products are loaded and, when there are some, one check each is started.
TimerFires ==
  /\ tick.pc = "idle"
  /\ tick.no < MaxTicks
  /\ clock' = clock + 1
  /\ LET batch == getActiveProducts(products) IN
       IF batch = {}
       THEN /\ tick' = [tick EXCEPT !.no = @ + 1, !.batch = {}, !.succeeded = 0,
                                    !.failed = 0, !.failedProducts = {},
                                    !.outcome = "no-products"]
            /\ chk' = [p \in DOMAIN chk |-> IdleCheck(p)]
       ELSE /\ tick' = [tick EXCEPT !.pc = "running", !.no = @ + 1, !.batch = batch,
                                    !.succeeded = 0, !.failed = 0, !.failedProducts = {},
                                    !.outcome = "none"]
            /\ chk' = [p \in DOMAIN chk |->
                         IF p \in batch THEN StartedCheck(p, apiKey, products) ELSE IdleCheck(p)]
  /\ UNCHANGED <<apiKey, products, history, inventoryEvents, notifications>>
  /\ UNCHANGED <<dispatchVars, smsVars, crudVars>>

\* getCosmosClient or getActiveProducts throws: the tick logs and rethrows.
TimerFiresLoadFails ==
  /\ tick.pc = "idle"
  /\ tick.no < MaxTicks
  /\ clock' = clock + 1
  /\ tick' = [tick EXCEPT !.no = @ + 1, !.batch = {}, !.succeeded = 0, !.failed = 0,
                          !.failedProducts = {}, !.outcome = "threw"]
  /\ chk' = [p \in DOMAIN chk |-> IdleCheck(p)]
  /\ UNCHANGED <<apiKey, products, history, inventoryEvents, notifications>>
  /\ UNCHANGED <<dispatchVars, smsVars, crudVars>>

\* A check that stamps lastStatusChangeAt on every poll.
CheckedProductAlwaysStamps(product, result, now, statusChanged) ==
  [ product EXCEPT
      !.currentStatus = result.status,
      !.lastCheckedAt = now,
      !.lastStatusChangeAt = now,
      !.productUrl = result.productUrl,
      !.addToCartUrl = result.addToCartUrl,
      !.imageUrl = IF result.imageUrl # "" THEN result.imageUrl ELSE @ ]

\* A check that refreshes the record only when the verdict changed.
CheckedProductOnlyOnChange(product, result, now, statusChanged) ==
  IF statusChanged
  THEN [ product EXCEPT
           !.currentStatus = result.status,
           !.lastCheckedAt = now,
           !.lastStatusChangeAt = now,
           !.productUrl = result.productUrl,
           !.addToCartUrl = result.addToCartUrl,
           !.imageUrl = IF result.imageUrl # "" THEN result.imageUrl ELSE @ ]
  ELSE product

\* The fields a check sets on its product object before the replace.
CheckedProduct(product, result, now, statusChanged) ==
  [ product EXCEPT
      !.currentStatus = result.status,
      !.lastCheckedAt = now,
      !.lastStatusChangeAt = IF statusChanged THEN now ELSE @,
      !.productUrl = result.productUrl,
      !.addToCartUrl = result.addToCartUrl,
      !.imageUrl = IF result.imageUrl # "" THEN result.imageUrl ELSE @ ]

\* provider.checkInventory resolves: the check diffs the verdicts, updates its
\* product object and calls cosmosClient.updateProduct (which stamps updatedAt).
CheckInventoryReturns(p) ==
  /\ chk[p].pc = "checkInventory"
  /\ \E result \in CheckResults(p) :
       LET c == chk[p]
           was == isAvailable(c.product.currentStatus)
           nowAv == isAvailable(result.status)
           changed == was # nowAv
       IN chk' = [chk EXCEPT ![p] =
                    [ c EXCEPT
                        !.pc = "updateProduct",
                        !.result = result,
                        !.now = clock,
                        !.wasAvailable = was,
                        !.nowAvailable = nowAv,
                        !.statusChanged = changed,
                        !.product = [CheckedProduct(c.product, result, clock, changed)
                                       EXCEPT !.updatedAt = clock] ]]
  /\ UNCHANGED <<clock, apiKey, products, history, inventoryEvents, notifications, tick>>
  /\ UNCHANGED <<dispatchVars, smsVars, crudVars>>

\* provider.checkInventory rejects: product not found, or an HTTP error.
CheckInventoryThrows(p) ==
  /\ chk[p].pc = "checkInventory"
  /\ \E err \in {"ProductNotFound", "ApiError"} :
       chk' = [chk EXCEPT ![p].pc = "rejected", ![p].error = err]
  /\ UNCHANGED <<clock, apiKey, products, history, inventoryEvents, notifications, tick>>
  /\ UNCHANGED <<dispatchVars, smsVars, crudVars>>

\* A check that records a history entry on every poll.
AfterUpdateAlwaysRecords(c) == "getLatestHistoryEntry"

\* A check that publishes the change event straight after the replace.
AfterUpdatePublishesFirst(c) == IF c.statusChanged THEN "sendInventoryEvent" ELSE "fulfilled"

\* The step a check takes once the product replace has succeeded.
AfterUpdate(c) == IF c.statusChanged THEN "getLatestHistoryEntry" ELSE "fulfilled"

\* products.item(id).replace(product) succeeds.
UpdateProductDone(p) ==
  /\ chk[p].pc = "updateProduct"
  /\ products' = [products EXCEPT ![p] = chk[p].product]
  /\ chk' = [chk EXCEPT ![p].pc = AfterUpdate(chk[p])]
  /\ UNCHANGED <<clock, apiKey, history, inventoryEvents, notifications, tick>>
  /\ UNCHANGED <<dispatchVars, smsVars, crudVars>>

\* The query for the latest history entry answers.
GetLatestHistoryEntryDone(p) ==
  /\ chk[p].pc = "getLatestHistoryEntry"
  /\ \E prev \in (IF history[p] = <<>> THEN {NoEntry} ELSE LatestEntries(history[p])) :
       chk' = [chk EXCEPT ![p].pc = "addHistoryEntry", ![p].previousEntry = prev]
  /\ UNCHANGED <<clock, apiKey, products, history, inventoryEvents, notifications, tick>>
  /\ UNCHANGED <<dispatchVars, smsVars, crudVars>>

\* A store that keeps one entry per product and overwrites it (an upsert).
AddHistoryEntryUpsert(p) ==
  /\ chk[p].pc = "addHistoryEntry"
  /\ history' = [history EXCEPT ![p] = <<HistoryEntryOf(chk[p])>>]
  /\ chk' = [chk EXCEPT ![p].pc = "sendInventoryEvent"]
  /\ UNCHANGED <<clock, apiKey, products, inventoryEvents, notifications, tick>>
  /\ UNCHANGED <<dispatchVars, smsVars, crudVars>>

\* inventoryHistory.items.create(entry) succeeds.
AddHistoryEntryDone(p) ==
  /\ chk[p].pc = "addHistoryEntry"
  /\ history' = [history EXCEPT ![p] = Append(@, HistoryEntryOf(chk[p]))]
  /\ chk' = [chk EXCEPT ![p].pc = "sendInventoryEvent"]
  /\ UNCHANGED <<clock, apiKey, products, inventoryEvents, notifications, tick>>
  /\ UNCHANGED <<dispatchVars, smsVars, crudVars>>

\* A check that never enqueues a notification.
AfterPublishNeverNotifies(c) == "fulfilled"

\* The step a check takes once the change event is published.
AfterPublish(c) == IF ShouldNotify(c) THEN "queueNotification" ELSE "fulfilled"

\* sender('inventory-events').sendMessages(event) succeeds.
SendInventoryEventDone(p) ==
  /\ chk[p].pc = "sendInventoryEvent"
  /\ inventoryEvents' = inventoryEvents (+) SetToBag({EventOf(chk[p])})
  /\ chk' = [chk EXCEPT ![p].pc = AfterPublish(chk[p])]
  /\ UNCHANGED <<clock, apiKey, products, history, notifications, tick>>
  /\ UNCHANGED <<dispatchVars, smsVars, crudVars>>

\* sender('notifications').sendMessages(request) succeeds.
QueueNotificationDone(p) ==
  /\ chk[p].pc = "queueNotification"
  /\ notifications' = notifications (+) SetToBag({NotificationRequestOf(chk[p])})
  /\ chk' = [chk EXCEPT ![p].pc = "fulfilled"]
  /\ UNCHANGED <<clock, apiKey, products, history, inventoryEvents, tick>>
  /\ UNCHANGED <<dispatchVars, smsVars, crudVars>>

\* An awaited store or transport call rejects: the check's promise rejects
\* with that error and the rest of the check is not run.
AwaitedCalls == {"updateProduct", "getLatestHistoryEntry", "addHistoryEntry",
                 "sendInventoryEvent", "queueNotification"}

\* A check that swallows a failed publish and carries on.
AwaitedCallSwallowed(p) ==
  /\ chk[p].pc \in AwaitedCalls
  /\ chk' = [chk EXCEPT ![p].pc = IF chk[p].pc = "sendInventoryEvent"
                                   THEN AfterPublish(chk[p]) ELSE "rejected",
                         ![p].error = IF chk[p].pc = "sendInventoryEvent" THEN "" ELSE chk[p].pc]
  /\ UNCHANGED <<clock, apiKey, products, history, inventoryEvents, notifications, tick>>
  /\ UNCHANGED <<dispatchVars, smsVars, crudVars>>

AwaitedCallThrows(p) ==
  /\ chk[p].pc \in AwaitedCalls
  /\ chk' = [chk EXCEPT ![p].pc = "rejected", ![p].error = chk[p].pc]
  /\ UNCHANGED <<clock, apiKey, products, history, inventoryEvents, notifications, tick>>
  /\ UNCHANGED <<dispatchVars, smsVars, crudVars>>

\* Promise.all instead of Promise.allSettled: the first rejection ends the wait.
BatchDoneFailFast(batch) ==
  \/ \E p \in batch : chk[p].pc = "rejected"
  \/ \A p \in batch : chk[p].pc = "fulfilled"

\* The tick may log its summary: Promise.allSettled has resolved.
BatchDone(batch) == AllSettled(batch)

\* await Promise.allSettled(...) resolves; the tick logs the summary and returns
\* (the promises and the frames of its checks are gone with it).
TickReports ==
  /\ tick.pc = "running"
  /\ BatchDone(tick.batch)
  /\ tick' = [tick EXCEPT
                !.pc = "idle",
                !.succeeded = Cardinality({p \in tick.batch : chk[p].pc = "fulfilled"}),
                !.failed = Cardinality({p \in tick.batch : chk[p].pc = "rejected"}),
                !.failedProducts = {p \in tick.batch : chk[p].pc = "rejected"},
                !.outcome = "reported"]
  /\ chk' = [p \in DOMAIN chk |-> IdleCheck(p)]
  /\ UNCHANGED <<clock, apiKey, products, history, inventoryEvents, notifications>>
  /\ UNCHANGED <<dispatchVars, smsVars, crudVars>>

MonitorNext ==
  \/ TimerFires
  \/ TimerFiresLoadFails
  \/ TickReports
  \/ \E p \in Products : CheckInventoryReturns(p)
  \/ \E p \in Products : CheckInventoryThrows(p)
  \/ \E p \in Products : UpdateProductDone(p)
  \/ \E p \in Products : GetLatestHistoryEntryDone(p)
  \/ \E p \in Products : AddHistoryEntryDone(p)
  \/ \E p \in Products : SendInventoryEventDone(p)
  \/ \E p \in Products : QueueNotificationDone(p)
  \/ \E p \in Products : AwaitedCallThrows(p)


\* ----------------------------------------------------- notification sender

\* The channel names a request may carry ("email" stands for any name the
\* sender's switch does not know).
Channels == {"sms", "push", "email"}

ChannelLists == UNION { [1..k -> Channels] : k \in 0..MaxChannels }

\* The requests the 'notifications' queue can deliver: the payload the monitor
\* builds for an in-stock transition, with any list of channels.
RequestInputs ==
  { [ timestamp |-> 1,
      triggerEvent |-> [eventType |-> "inventory.available", timestamp |-> 1,
                        productId |-> 1, online |-> TRUE, stores |-> <<>>],
      channels |-> chs, attemptCount |-> 0, maxAttempts |-> MaxAttempts ] :
    chs \in ChannelLists }

\* A guard that looks at the target only, whatever the enabled flag says.
ChannelReadyTargetOnly(prefs, channel) ==
  CASE channel = "sms" -> prefs.sms.phoneNumber # ""
    [] channel = "push" -> prefs.push.subscriptions > 0
    [] OTHER -> FALSE

\* A guard that looks at the enabled flag only.
ChannelReadyEnabledOnly(prefs, channel) ==
  CASE channel = "sms" -> prefs.sms.enabled
    [] channel = "push" -> prefs.push.enabled
    [] OTHER -> FALSE

\* The guard under which the sender of a channel is invoked.
ChannelReady(prefs, channel) ==
  CASE channel = "sms" -> prefs.sms.enabled /\ prefs.sms.phoneNumber # ""
    [] channel = "push" -> prefs.push.enabled /\ prefs.push.subscriptions > 0
    [] OTHER -> FALSE

\* A NotificationResult: the channel, the verdict and, for a failure, whether
\* the error is the send's own report or a caught exception.
Result(channel, success) ==
  [channel |-> channel, success |-> success,
   error |-> IF success THEN "" ELSE "SMS delivery failed"]

ThrownResult(channel) == [channel |-> channel, success |-> FALSE, error |-> "thrown"]

\* A push sender that reports one result for the whole channel.
PushResultsOnePerCall(n) == <<Result("push", TRUE)>>

\* sendPushNotifications: one (placeholder) successful result per subscription.
PushResults(n) == [k \in 1..n |-> Result("push", TRUE)]

Successful(results) == Cardinality({k \in DOMAIN results : results[k].success})
Failed(results) == Cardinality({k \in DOMAIN results : ~results[k].success})

\* A sender that retries whenever some delivery failed.
AnyDeliveryFailed(results) == Failed(results) > 0

\* A sender that does not look at the number of results.
NoDeliverySucceeded(results) == Successful(results) = 0

\* The condition under which the sender throws to trigger a retry.
AllDeliveriesFailed(results) == Len(results) > 0 /\ Successful(results) = 0

\* What the transport does with the message when the handler returns
\* ("success") or throws ("failure").
Settle(d, outcome) ==
  IF outcome = "success"
  THEN [d EXCEPT !.state = "completed"]
  ELSE IF d.deliveryCount >= MaxDeliveryCount
       THEN [d EXCEPT !.state = "deadLettered"]
       ELSE [d EXCEPT !.state = "queued"]

DispatchInit ==
  /\ clock = 0
  /\ apiKey = TRUE
  /\ products = [p \in Products |-> NewProduct(p, TRUE)]
  /\ history = [p \in Products |-> <<>>]
  /\ inventoryEvents = EmptyBag
  /\ notifications = EmptyBag
  /\ tick = IdleTick
  /\ chk = [p \in Products |-> IdleCheck(p)]
  /\ acsEndpoint \in BOOLEAN
  /\ acsFromNumber \in BOOLEAN
  /\ preferences \in StoredPreferences \cup {NoPreferences}
  /\ request \in RequestInputs
  /\ delivery = [state |-> "queued", deliveryCount |-> 0]
  /\ disp = IdleDispatch
  /\ attempts = <<>>
  /\ sms = IdleSms
  /\ patch = IdlePatch

\* What a finished invocation logged: how it ended and how many of its
\* results were successful.
Logged(d) ==
  [outcome |-> d.outcome, error |-> d.error, successful |-> Successful(d.results)]

\* A handler that counts the attempt in the payload it was given.
DeliveredPayloadCountsAttempt(req) == [req EXCEPT !.attemptCount = @ + 1]

\* The payload the handler holds when it returns: notificationSender only
\* reads its message.
DeliveredPayload(req) == req

\* The transport delivers the message: notificationSender starts and asks for
\* the user preferences.
Deliver ==
  /\ delivery.state = "queued"
  /\ delivery' = [delivery EXCEPT !.state = "processing", !.deliveryCount = @ + 1]
  /\ disp' = [IdleDispatch EXCEPT !.pc = "getUserPreferences"]
  /\ request' = DeliveredPayload(request)
  /\ UNCHANGED <<acsEndpoint, acsFromNumber, preferences, attempts>>
  /\ UNCHANGED <<monitorVars, smsVars, crudVars>>

\* A handler that treats missing preferences as an error.
WithoutPreferencesThrows(d) ==
  [d EXCEPT !.pc = "done", !.outcome = "failure", !.error = "noPreferences"]

\* if (!preferences) return: the handler warns and returns.
WithoutPreferences(d) == [d EXCEPT !.pc = "done", !.outcome = "success"]

\* getUserPreferences resolves: without preferences the handler returns at
\* once, otherwise it starts on the requested channels.
GetUserPreferencesReturns ==
  /\ disp.pc = "getUserPreferences"
  /\ IF ~preferences.found
     THEN /\ disp' = WithoutPreferences(disp)
          /\ delivery' = Settle(delivery, disp'.outcome)
          /\ attempts' = Append(attempts, Logged(disp'))
     ELSE /\ disp' = [disp EXCEPT !.pc = "channels", !.preferences = preferences, !.i = 1]
          /\ delivery' = delivery
          /\ attempts' = attempts
  /\ UNCHANGED <<acsEndpoint, acsFromNumber, preferences, request>>
  /\ UNCHANGED <<monitorVars, smsVars, crudVars>>

\* getCosmosClient or getUserPreferences rejects: the outer catch rethrows.
GetUserPreferencesThrows ==
  /\ disp.pc = "getUserPreferences"
  /\ disp' = [disp EXCEPT !.pc = "done", !.outcome = "failure", !.error = "preferences"]
  /\ delivery' = Settle(delivery, "failure")
  /\ attempts' = Append(attempts, Logged(disp'))
  /\ UNCHANGED <<acsEndpoint, acsFromNumber, preferences, request>>
  /\ UNCHANGED <<monitorVars, smsVars, crudVars>>

\* A catch that records the failure and leaves the loop.
CaughtAndBreak(d, channel) ==
  [d EXCEPT !.attempted = Append(@, channel),
            !.results = Append(@, ThrownResult(channel)),
            !.i = Len(request.channels) + 1]

\* The catch inside the loop: the thrown error becomes a failed result of the
\* channel and the loop goes on.
CaughtInLoop(d, channel) ==
  [d EXCEPT !.attempted = Append(@, channel),
            !.results = Append(@, ThrownResult(channel)),
            !.i = @ + 1]

\* One turn of the loop over message.channels, up to its await.
ProcessChannel ==
  /\ disp.pc = "channels"
  /\ disp.i <= Len(request.channels)
  /\ LET channel == request.channels[disp.i] IN
       IF ~ChannelReady(disp.preferences, channel)
       THEN \* disabled, no target, or an unknown channel: logged and skipped
            disp' = [disp EXCEPT !.i = @ + 1]
       ELSE IF channel = "push"
       THEN disp' = [disp EXCEPT
                       !.attempted = Append(@, channel),
                       !.results = @ \o PushResults(disp.preferences.push.subscriptions),
                       !.i = @ + 1]
       ELSE IF acsEndpoint
       THEN \* sendSmsNotification formats the text and awaits smsService.sendSms,
            \* which calls client.send with whatever from-number it was built with
            disp' = [disp EXCEPT
                       !.attempted = Append(@, channel),
                       !.smsSends = @ + 1,
                       !.pc = "sendSms"]
       ELSE \* getSmsService throws in the constructor of the service
            disp' = CaughtInLoop(disp, channel)
  /\ UNCHANGED <<acsEndpoint, acsFromNumber, preferences, request, delivery, attempts>>
  /\ UNCHANGED <<monitorVars, smsVars, crudVars>>

\* How client.send can settle: a send without a from-number cannot succeed.
SendOutcomes(fromNumber) ==
  IF fromNumber THEN {"successful", "unsuccessful", "throws"} ELSE {"unsuccessful", "throws"}

\* smsService.sendSms settles: successful, unsuccessful, or rejected; each
\* becomes one NotificationResult.
SendSmsSettles ==
  /\ disp.pc = "sendSms"
  /\ \E how \in SendOutcomes(acsFromNumber) :
       disp' = [disp EXCEPT
                  !.results = Append(@, IF how = "throws" THEN ThrownResult("sms")
                                        ELSE Result("sms", how = "successful")),
                  !.pc = "channels",
                  !.i = @ + 1]
  /\ UNCHANGED <<acsEndpoint, acsFromNumber, preferences, request, delivery, attempts>>
  /\ UNCHANGED <<monitorVars, smsVars, crudVars>>

\* The loop is over: the handler throws when all deliveries failed and returns
\* otherwise, and the transport settles the message.
DispatchEnds ==
  /\ disp.pc = "channels"
  /\ disp.i > Len(request.channels)
  /\ LET outcome == IF AllDeliveriesFailed(disp.results) THEN "failure" ELSE "success" IN
       /\ disp' = [disp EXCEPT !.pc = "done", !.outcome = outcome,
                               !.error = IF outcome = "failure" THEN "allFailed" ELSE ""]
       /\ delivery' = Settle(delivery, outcome)
       /\ attempts' = Append(attempts, Logged(disp'))
  /\ UNCHANGED <<acsEndpoint, acsFromNumber, preferences, request>>
  /\ UNCHANGED <<monitorVars, smsVars, crudVars>>

\* The CRUD layer rewrites (or removes) the preferences while the message
\* waits for its redelivery.
PreferencesChange ==
  /\ delivery.state = "queued"
  /\ delivery.deliveryCount >= 1
  /\ preferences' \in (StoredPreferences \cup {NoPreferences}) \ {preferences}
  /\ UNCHANGED <<acsEndpoint, acsFromNumber, request, delivery, disp, attempts>>
  /\ UNCHANGED <<monitorVars, smsVars, crudVars>>

DispatchNext ==
  \/ Deliver
  \/ GetUserPreferencesReturns
  \/ GetUserPreferencesThrows
  \/ ProcessChannel
  \/ SendSmsSettles
  \/ DispatchEnds
  \/ PreferencesChange

vars == <<monitorVars, dispatchVars, smsVars, crudVars>>

Next == MonitorNext

\* The inventory monitor, from freshly created products.
Spec == Init /\ [][Next]_vars

\* The notification sender, on one queued request.
SpecDispatch == DispatchInit /\ [][DispatchNext]_vars

\* The transport delivers a queued message, and every call the handler awaits
\* settles.
DispatchFairness ==
  /\ WF_vars(Deliver)
  /\ WF_vars(GetUserPreferencesReturns \/ GetUserPreferencesThrows)
  /\ WF_vars(ProcessChannel)
  /\ WF_vars(SendSmsSettles)
  /\ WF_vars(DispatchEnds)

SpecDispatchLive == SpecDispatch /\ DispatchFairness

\* --------------------------------------------------------- SMS text, as a run

SmsInputs ==
  { [ pc |-> "call", productName |-> NameOfLength(n), addToCartUrl |-> UrlOfLength(u),
      location |-> LocationOfLength(l), text |-> <<>> ] :
    n \in 0..MaxNameLen, u \in 0..MaxUrlLen, l \in 0..MaxLocationLen }

FormatInit ==
  /\ clock = 0
  /\ apiKey = TRUE
  /\ products = [p \in Products |-> NewProduct(p, TRUE)]
  /\ history = [p \in Products |-> <<>>]
  /\ inventoryEvents = EmptyBag
  /\ notifications = EmptyBag
  /\ tick = IdleTick
  /\ chk = [p \in Products |-> IdleCheck(p)]
  /\ acsEndpoint = TRUE
  /\ acsFromNumber = TRUE
  /\ preferences = NoPreferences
  /\ request = NoRequest
  /\ delivery = [state |-> "empty", deliveryCount |-> 0]
  /\ disp = IdleDispatch
  /\ attempts = <<>>
  /\ sms \in SmsInputs
  /\ patch = IdlePatch

\* sendSmsNotification formats the text of the alert.
FormatAlertMessage ==
  /\ sms.pc = "call"
  /\ sms' = [sms EXCEPT !.pc = "returned",
                        !.text = formatAlertMessage(sms.productName, "bestbuy",
                                                    sms.addToCartUrl, sms.location)]
  /\ UNCHANGED <<monitorVars, dispatchVars, crudVars>>

FormatNext == FormatAlertMessage

SpecFormat == FormatInit /\ [][FormatNext]_vars

\* ------------------------------------------------ the fan-out of one tick

\* The products the CRUD layer has stored; the first n of them are active.
Catalogue == 1..MaxCatalogue

FanOutInit ==
  /\ clock = 0
  /\ apiKey \in BOOLEAN
  /\ \E n \in 0..MaxCatalogue :
       products = [p \in Catalogue |-> NewProduct(p, p <= n)]
  /\ history = [p \in Catalogue |-> <<>>]
  /\ inventoryEvents = EmptyBag
  /\ notifications = EmptyBag
  /\ tick = IdleTick
  /\ chk = [p \in Catalogue |-> IdleCheck(p)]
  /\ acsEndpoint = TRUE
  /\ acsFromNumber = TRUE
  /\ preferences = NoPreferences
  /\ request = NoRequest
  /\ delivery = [state |-> "empty", deliveryCount |-> 0]
  /\ disp = IdleDispatch
  /\ attempts = <<>>
  /\ sms = IdleSms
  /\ patch = IdlePatch

\* A tick over the catalogue, up to the answer of each provider call.
FanOutNext ==
  \/ TimerFires
  \/ TimerFiresLoadFails
  \/ TickReports
  \/ \E p \in Catalogue : CheckInventoryReturns(p)
  \/ \E p \in Catalogue : CheckInventoryThrows(p)

SpecFanOut == FanOutInit /\ [][FanOutNext]_vars

\* ------------------------------------------- a provider that never answers

\* fetch() in fetchProductDetails / fetchStoreAvailability is called without a
\* signal or a timer: a request the retailer never answers leaves the promise
\* of checkInventory pending, and nothing in the check settles it.
CheckInventoryNeverAnswers(p) ==
  /\ chk[p].pc = "checkInventory"
  /\ chk' = [chk EXCEPT ![p].pc = "pending"]
  /\ UNCHANGED <<clock, apiKey, products, history, inventoryEvents, notifications, tick>>
  /\ UNCHANGED <<dispatchVars, smsVars, crudVars>>

UnresponsiveNext ==
  \/ MonitorNext
  \/ \E p \in Products : CheckInventoryNeverAnswers(p)

\* The event loop runs every continuation that is ready: a call that gets an
\* answer resumes its check, and the tick resumes once allSettled resolves.
CheckStep(p) ==
  \/ CheckInventoryReturns(p)
  \/ CheckInventoryThrows(p)
  \/ CheckInventoryNeverAnswers(p)
  \/ UpdateProductDone(p)
  \/ GetLatestHistoryEntryDone(p)
  \/ AddHistoryEntryDone(p)
  \/ SendInventoryEventDone(p)
  \/ QueueNotificationDone(p)
  \/ AwaitedCallThrows(p)

MonitorFairness ==
  /\ WF_vars(TickReports)
  /\ \A p \in Products : WF_vars(CheckStep(p))

\* The monitor when every call it awaits is answered.
SpecLive == Spec /\ MonitorFairness

\* The monitor when a provider request may stay unanswered.
SpecUnresponsive == Init /\ [][UnresponsiveNext]_vars /\ MonitorFairness

\* ------------------------------------------- PATCH /api/products/{id}

\* The request bodies a client sends: pause, resume, or rename and promote.
PatchBodies ==
  { [NoBody EXCEPT !.fields = {"isActive"}, !.isActive = b] : b \in BOOLEAN }
    \cup { [NoBody EXCEPT !.fields = {"name", "priority"}, !.name = "renamed",
                          !.priority = "high"] }

\* updateProduct of the products API, "Apply updates": the fields the body
\* carries are set on the product object that was read, and updatedAt.
PatchedProduct(product, body, now) ==
  [ product EXCEPT
      !.name = IF "name" \in body.fields THEN body.name ELSE @,
      !.priority = IF "priority" \in body.fields THEN body.priority ELSE @,
      !.storeLocations = IF "storeLocations" \in body.fields THEN body.storeLocations ELSE @,
      !.isActive = IF "isActive" \in body.fields THEN body.isActive ELSE @,
      !.updatedAt = now ]

\* A PATCH arrives and client.getProduct(id) resolves with the stored record:
\* the handler applies the body to it and calls client.updateProduct.
PatchGetProductDone(p, body) ==
  /\ patch.pc = "idle"
  /\ patch.no < MaxPatches
  /\ patch' = [ pc |-> "updateProduct", no |-> patch.no + 1, id |-> p, body |-> body,
                product |-> PatchedProduct(products[p], body, clock), outcome |-> "none" ]
  /\ UNCHANGED <<monitorVars, dispatchVars, smsVars>>

\* products.item(id).replace(product) of the PATCH succeeds: the whole record
\* as the handler holds it is stored, and the handler answers 200.
PatchUpdateProductDone ==
  /\ patch.pc = "updateProduct"
  /\ products' = [products EXCEPT ![patch.id] = [patch.product EXCEPT !.updatedAt = clock]]
  /\ patch' = [patch EXCEPT !.pc = "idle", !.outcome = "ok"]
  /\ UNCHANGED <<clock, apiKey, history, inventoryEvents, notifications, tick, chk>>
  /\ UNCHANGED <<dispatchVars, smsVars>>

\* The replace of the PATCH rejects: the handler answers 500.
PatchUpdateProductThrows ==
  /\ patch.pc = "updateProduct"
  /\ patch' = [patch EXCEPT !.pc = "idle", !.outcome = "error"]
  /\ UNCHANGED <<monitorVars, dispatchVars, smsVars>>

CrudNext ==
  \/ MonitorNext
  \/ \E p \in Products : \E body \in PatchBodies : PatchGetProductDone(p, body)
  \/ PatchUpdateProductDone
  \/ PatchUpdateProductThrows

\* The monitor and the products API on the same products; product 1 is
\* monitored and product 2 paused.
CrudInit ==
  /\ Init
  /\ apiKey
  /\ products[1].isActive /\ ~products[2].isActive

SpecCrud == CrudInit /\ [][CrudNext]_vars

\* ================================================================== claims

\* The availability verdict as the data model states it: online-available OR
\* any per-store-available.
Verdict(status) ==
  status.online.available \/ \E i \in DOMAIN status.stores : status.stores[i].available

\* What a check of product p polled at time t has produced (the clock moves on
\* between ticks, so p and t identify one check).
EventsOfCheck(p, t) ==
  [ e \in {x \in DOMAIN inventoryEvents : x.productId = p /\ x.timestamp = t}
      |-> inventoryEvents[e] ]

NotificationsOfCheck(p, t) ==
  [ n \in {x \in DOMAIN notifications : x.triggerEvent.productId = p /\ x.timestamp = t}
      |-> notifications[n] ]

EntriesOfCheck(p, t) == { i \in DOMAIN history[p] : history[p][i].timestamp = t }

EventsOfProduct(p) ==
  [ e \in {x \in DOMAIN inventoryEvents : x.productId = p} |-> inventoryEvents[e] ]

NotificationsOfProduct(p) ==
  [ n \in {x \in DOMAIN notifications : x.triggerEvent.productId = p} |-> notifications[n] ]

\* The check has received the provider's answer (it polled at chk[p].now).
Polled(p) == chk[p].now # Undefined

PipelineSteps == {"getLatestHistoryEntry", "addHistoryEntry", "sendInventoryEvent",
                  "queueNotification"}

\* The check's product replace has succeeded.
Replaced(p) ==
  \/ chk[p].pc \in PipelineSteps
  \/ chk[p].pc = "fulfilled" /\ Polled(p)
  \/ chk[p].pc = "rejected" /\ chk[p].error \in PipelineSteps

\* ----------------------------------------------------------------------- C1
\* C1 as claimed: every settled check that detected a transition has published
\* exactly one change event and enqueued exactly one notification request if
\* nowAvailable, none otherwise.
C1_ExactlyOnePerDetectedTransition ==
  \A p \in Products :
    (Settled(chk[p]) /\ Polled(p) /\ chk[p].statusChanged) =>
      /\ BagCardinality(EventsOfCheck(p, chk[p].now)) = 1
      /\ BagCardinality(NotificationsOfCheck(p, chk[p].now))
           = (IF chk[p].nowAvailable THEN 1 ELSE 0)

\* C1 amended: a check that detected a transition and completes without error
\* has published exactly one change event and enqueued exactly one notification
\* request if and only if nowAvailable; a check that fails has published at
\* most one event (exactly one only when the enqueue is what failed) and
\* enqueued nothing; no check ever publishes or enqueues more than one, and a
\* check that detected no transition publishes and enqueues nothing.
C1_ExactlyOneWhenCheckCompletes ==
  \A p \in Products :
    LET c == chk[p]
        ev == BagCardinality(EventsOfCheck(p, clock))
        nq == BagCardinality(NotificationsOfCheck(p, clock))
    IN /\ ev <= 1 /\ nq <= 1
       /\ (c.pc = "fulfilled" /\ Polled(p) /\ Verdict(c.result.status) # c.wasAvailable) =>
            (ev = 1 /\ nq = (IF Verdict(c.result.status) THEN 1 ELSE 0))
       /\ (c.pc = "fulfilled" /\ Polled(p) /\ Verdict(c.result.status) = c.wasAvailable) =>
            (ev = 0 /\ nq = 0)
       /\ c.pc = "rejected" =>
            (nq = 0 /\ ev = (IF c.error = "queueNotification" THEN 1 ELSE 0))

C1_Witness ==
  /\ chk[1].pc = "fulfilled" /\ chk[1].statusChanged /\ chk[1].nowAvailable
  /\ chk[2].pc = "fulfilled" /\ chk[2].statusChanged /\ ~chk[2].nowAvailable
  /\ BagCardinality(EventsOfCheck(1, clock)) = 1
  /\ BagCardinality(NotificationsOfCheck(1, clock)) = 1
  /\ BagCardinality(EventsOfCheck(2, clock)) = 1
  /\ BagCardinality(NotificationsOfCheck(2, clock)) = 0

\* ----------------------------------------------------------------------- C2
\* A check whose observed verdict equals the verdict of the stored status goes
\* from the product replace straight to its end, and no step taken outside the
\* history/publish/enqueue steps of a check adds a history entry, a change event
\* or a notification request for its product: an unchanged poll, and any run of
\* unchanged polls, leaves all three as they were.
NoEffects(p) ==
  /\ history'[p] = history[p]
  /\ EventsOfProduct(p)' = EventsOfProduct(p)
  /\ NotificationsOfProduct(p)' = NotificationsOfProduct(p)

C2_UnchangedPollStep ==
  \A p \in Products :
    /\ chk[p].pc \notin PipelineSteps => NoEffects(p)
    /\ ( /\ chk[p].pc = "updateProduct"
         /\ Verdict(products[p].currentStatus) = Verdict(chk[p].result.status) )
       => chk'[p].pc \in {"updateProduct", "fulfilled", "rejected"}

C2_NoEffectWhenUnchanged == [][C2_UnchangedPollStep]_vars

\* A second consecutive poll that finds product 2 still available (through
\* another location than before) has ended with the one entry, event and
\* request of the first transition.
C2_Witness ==
  /\ tick.no = 2 /\ chk[2].pc = "fulfilled" /\ Polled(2)
  /\ chk[2].wasAvailable /\ chk[2].nowAvailable
  /\ ~chk[2].result.status.online.available
  /\ Len(history[2]) = 1 /\ history[2][1].online
  /\ BagCardinality(EventsOfProduct(2)) = 1
  /\ BagCardinality(NotificationsOfProduct(2)) = 1

\* ----------------------------------------------------------------------- C3
\* A channel is to be attempted when it is enabled and has a valid target: a
\* phone number for SMS, at least one subscription for push.
HasTarget(prefs, channel) ==
  \/ channel = "sms" /\ prefs.sms.enabled /\ prefs.sms.phoneNumber # ""
  \/ channel = "push" /\ prefs.push.enabled /\ prefs.push.subscriptions >= 1

\* The requested channels the attempt is to try, under the preferences it read.
ChannelsToAttempt ==
  { k \in DOMAIN request.channels : HasTarget(disp.preferences, request.channels[k]) }

\* A dispatch attempt with at least one attempted channel has collected at
\* least one result; it throws (and the transport keeps the message for
\* redelivery or dead-letters it) iff every collected result is a failure, and
\* it returns (and the message is completed) as soon as one result is a
\* success, whatever the other channels did.
C3_FailsIffAllResultsFailed ==
  (disp.pc = "done" /\ ChannelsToAttempt # {}) =>
    /\ Len(disp.results) >= 1
    /\ disp.outcome = "failure" <=> \A k \in DOMAIN disp.results : ~disp.results[k].success
    /\ (\E k \in DOMAIN disp.results : disp.results[k].success) =>
         (disp.outcome = "success" /\ delivery.state = "completed")
    /\ disp.outcome = "failure" => delivery.state \in {"queued", "deadLettered"}
    /\ disp.outcome \in {"success", "failure"}

\* SMS failed, push succeeded: the attempt reports success.
C3_Witness ==
  /\ disp.pc = "done" /\ request.channels = <<"sms", "push">>
  /\ disp.attempted = <<"sms", "push">>
  /\ ~disp.results[1].success /\ disp.results[2].success
  /\ disp.outcome = "success" /\ delivery.state = "completed"

\* ----------------------------------------------------------------------- C4
\* When the preferences are found and every requested channel is disabled or
\* lacks a target, the attempt invokes no channel sender, makes no external
\* send, collects no result, returns successfully, and the transport completes
\* the message, which is never delivered again.
C4_NothingToAttempt ==
  (disp.preferences.found /\ ChannelsToAttempt = {}) =>
    /\ disp.attempted = <<>> /\ disp.smsSends = 0 /\ disp.results = <<>>
    /\ disp.pc = "done" => (disp.outcome = "success" /\ delivery.state = "completed")

C4_CompletedStep == delivery.state = "completed" => (delivery' = delivery /\ disp' = disp)

C4_ZeroAttemptedIsSuccess == []C4_NothingToAttempt /\ [][C4_CompletedStep]_vars

\* SMS enabled without a phone number, push disabled: nothing sent, success.
C4_Witness ==
  /\ disp.pc = "done" /\ request.channels = <<"sms", "push">>
  /\ disp.preferences.found
  /\ disp.preferences.sms.enabled /\ disp.preferences.sms.phoneNumber = ""
  /\ ~disp.preferences.push.enabled
  /\ disp.attempted = <<>> /\ disp.smsSends = 0
  /\ disp.outcome = "success" /\ delivery.state = "completed" /\ delivery.deliveryCount = 1

\* ----------------------------------------------------------------------- C5
\* The most recent entry of a product before its i-th entry.
PriorEntries(h, i) ==
  { h[j] : j \in { k \in 1..(i - 1) : \A m \in 1..(i - 1) : h[m].timestamp <= h[k].timestamp } }

\* Every history entry carries durationInStockMs iff it is out_of_stock and the
\* most recent prior entry of the product is in_stock; the value is then the
\* difference of the two timestamps; in_stock entries and first entries carry
\* none.
C5_DurationInStock ==
  \A p \in Products : \A i \in DOMAIN history[p] :
    LET e == history[p][i]
        prior == PriorEntries(history[p], i)
        after == e.eventType = "out_of_stock"
                   /\ prior # {} /\ \A q \in prior : q.eventType = "in_stock"
    IN /\ (e.durationInStockMs # Undefined) <=> after
       /\ after => \A q \in prior : e.durationInStockMs = e.timestamp - q.timestamp
       /\ e.eventType = "in_stock" => e.durationInStockMs = Undefined
       /\ i = 1 => e.durationInStockMs = Undefined

C5_Witness ==
  \E p \in Products :
    /\ Len(history[p]) = 2
    /\ history[p][1].eventType = "in_stock" /\ history[p][1].durationInStockMs = Undefined
    /\ history[p][2].eventType = "out_of_stock"
    /\ history[p][2].durationInStockMs = history[p][2].timestamp - history[p][1].timestamp
    /\ history[p][2].durationInStockMs > 0

\* ----------------------------------------------------------------------- C6
\* C6 as claimed: once a poll has settled, lastStatusChangeAt is that poll's
\* time if its verdict differed from the stored one.
C6_UpdatedIffVerdictDiffers ==
  \A p \in Products :
    (Settled(chk[p]) /\ Polled(p) /\ Verdict(chk[p].result.status) # chk[p].wasAvailable) =>
      products[p].lastStatusChangeAt = chk[p].now

\* C6 amended: the stored lastStatusChangeAt changes only in the product
\* replace of a poll, and a replace that succeeds sets it to the poll's time
\* iff the poll's verdict differs from the verdict of the stored status, and
\* keeps the stored value otherwise; a poll whose replace fails stores nothing.
C6_ReplaceStep ==
  \A p \in Products :
    /\ products'[p].lastStatusChangeAt # products[p].lastStatusChangeAt =>
         products'[p] # products[p]
    /\ products'[p] # products[p] =>
         /\ chk[p].pc = "updateProduct" /\ chk'[p].pc # "rejected"
         /\ products'[p].lastStatusChangeAt =
              IF Verdict(chk[p].result.status) # Verdict(products[p].currentStatus)
              THEN chk[p].now
              ELSE products[p].lastStatusChangeAt
    /\ (chk[p].pc = "updateProduct" /\ chk'[p].pc = "rejected") => products'[p] = products[p]

C6_UpdatedIffReplacedAndDiffers == [][C6_ReplaceStep]_vars

\* Product 1 went in stock at the first poll and is found in stock again at the
\* second: lastStatusChangeAt still holds the first poll's time.
C6_Witness ==
  /\ tick.no = 2 /\ chk[1].pc = "fulfilled" /\ Polled(1) /\ chk[1].now = 2
  /\ products[1].lastCheckedAt = 2
  /\ products[1].lastStatusChangeAt = 1
  /\ products[2].lastStatusChangeAt = 2

\* ----------------------------------------------------------------------- C7
\* The stored record holds what the check observed.
StoredIsFresh(p) ==
  /\ products[p].currentStatus = chk[p].result.status
  /\ products[p].lastCheckedAt = chk[p].now
  /\ products[p].productUrl = chk[p].result.productUrl
  /\ products[p].addToCartUrl = chk[p].result.addToCartUrl
  /\ chk[p].result.imageUrl # "" => products[p].imageUrl = chk[p].result.imageUrl

\* C7 as claimed: every check whose provider call succeeded has, once settled,
\* persisted the observed status, check time and links.
C7_EveryPolledCheckPersists ==
  \A p \in Products : (Settled(chk[p]) /\ Polled(p)) => StoredIsFresh(p)

\* C7 amended: every check whose provider call succeeds calls the product
\* replace next, whether or not the status changed; when the replace succeeds
\* the record holds the observed currentStatus, lastCheckedAt and links, written
\* in that one step, and every history, event or notification step of the check
\* comes after it; when the replace fails nothing is stored and the check ends
\* without any of those steps.
C7_ReplaceFirst ==
  \A p \in Products :
    /\ Replaced(p) => StoredIsFresh(p)
    /\ (tick.pc = "running" /\ ~Replaced(p)) =>
         /\ EntriesOfCheck(p, clock) = {}
         /\ BagCardinality(EventsOfCheck(p, clock)) = 0
         /\ BagCardinality(NotificationsOfCheck(p, clock)) = 0

C7_ReplaceStep ==
  \A p \in Products :
    /\ (chk[p].pc = "checkInventory" /\ chk'[p].pc \notin {"checkInventory", "rejected"}) =>
         chk'[p].pc = "updateProduct"
    /\ products'[p] # products[p] =>
         /\ chk[p].pc = "updateProduct" /\ Replaced(p)'
         /\ products'[p] = chk[p].product
    /\ (chk[p].pc = "updateProduct" /\ chk'[p].pc = "rejected") =>
         (products'[p] = products[p] /\ NoEffects(p))

C7_PersistsWhenReplaceSucceeds == []C7_ReplaceFirst /\ [][C7_ReplaceStep]_vars

\* An unchanged second poll of product 2 has stored its fresh status.
C7_Witness ==
  /\ tick.no = 2 /\ chk[2].pc = "fulfilled" /\ Polled(2) /\ ~chk[2].statusChanged
  /\ chk[2].nowAvailable
  /\ products[2].lastCheckedAt = 2 /\ products[2].lastStatusChangeAt = 1
  /\ products[2].currentStatus = chk[2].result.status
  /\ Len(history[2]) = 1
  /\ products[2].currentStatus.online.available # history[2][1].online

\* ----------------------------------------------------------------------- C8
\* Every request on the 'notifications' queue embeds a trigger event of type
\* inventory.available: a transition to unavailable enqueues nothing.
C8_OnlyAvailableNotifies ==
  /\ \A n \in DOMAIN notifications : n.triggerEvent.eventType = "inventory.available"
  /\ \A p \in Products :
       (Polled(p) /\ ~Verdict(chk[p].result.status)) =>
         BagCardinality(NotificationsOfCheck(p, chk[p].now)) = 0

C8_Witness ==
  /\ \E e \in DOMAIN inventoryEvents : e.eventType = "inventory.unavailable"
  /\ \E n \in DOMAIN notifications : n.triggerEvent.eventType = "inventory.available"
  /\ \E p \in Products :
       chk[p].pc = "fulfilled" /\ chk[p].statusChanged /\ ~chk[p].nowAvailable

\* ----------------------------------------------------------------------- C9
\* A step that rejects one product's check leaves every other check and the
\* tick as they are; the summary counts exactly the rejected checks as failed
\* and the fulfilled ones as succeeded, names the rejected products, covers the
\* whole batch, and the tick then ends normally.
C9_IsolationStep ==
  /\ \A p \in Products :
       (chk[p].pc # "rejected" /\ chk'[p].pc = "rejected") =>
         /\ tick' = tick
         /\ \A q \in Products \ {p} : chk'[q] = chk[q]
         /\ products' = products
  /\ (tick.pc = "running" /\ tick'.pc = "idle") =>
       /\ tick'.outcome = "reported"
       /\ tick'.failedProducts = {p \in tick.batch : chk[p].pc = "rejected"}
       /\ tick'.failed = Cardinality(tick'.failedProducts)
       /\ tick'.succeeded = Cardinality({p \in tick.batch : chk[p].pc = "fulfilled"})
       /\ tick'.succeeded + tick'.failed = Cardinality(tick.batch)

C9_FailureIsolation == [][C9_IsolationStep]_vars

\* A tick in which one check failed has reported one success and one failure,
\* and the other product's check has had its full effect.
C9_Witness ==
  /\ tick.pc = "idle" /\ tick.outcome = "reported" /\ tick.no = 1
  /\ tick.succeeded = 1 /\ tick.failed = 1 /\ tick.failedProducts = {1}
  /\ Len(history[2]) = 1 /\ BagCardinality(NotificationsOfProduct(2)) = 1
  /\ Len(history[1]) = 0

\* ---------------------------------------------------------------------- C10
\* The summary is reported only in a step taken when every check of the batch
\* has settled, and whenever no tick is running no check is running either.
C10_NoCheckRunning ==
  tick.pc = "idle" => \A p \in Products : chk[p].pc = "idle"

C10_ReportStep ==
  (tick'.outcome = "reported" /\ tick' # tick) =>
    /\ tick.pc = "running"
    /\ \A p \in tick.batch : chk[p].pc \in {"fulfilled", "rejected"}
    /\ \A p \in Products \ tick.batch : chk[p].pc = "idle"

C10_SummaryAfterAllSettled == []C10_NoCheckRunning /\ [][C10_ReportStep]_vars

C10_Witness ==
  /\ tick.pc = "running" /\ Cardinality(tick.batch) = 2
  /\ chk[1].pc = "rejected" /\ chk[2].pc = "sendInventoryEvent"

\* ---------------------------------------------------------------------- C11
\* No adapter is registered for the product's retailer: the only adapter is
\* the Best Buy one, registered when an API key is configured.
NoAdapter(p) == ~(apiKey /\ products[p].retailer = "bestbuy")

\* The check of a product without adapter is over as soon as it is started: it
\* never waits for the provider or for any store or transport call, the product
\* record stays as it was created, the product has no history entry, change
\* event or notification request, and the check counts as succeeded.
C11_NoAdapterNoEffect ==
  \A p \in Products :
    NoAdapter(p) =>
      /\ chk[p].pc \in {"idle", "fulfilled"}
      /\ ~Polled(p)
      /\ products[p] = NewProduct(p, products[p].isActive)
      /\ history[p] = <<>>
      /\ BagCardinality(EventsOfProduct(p)) = 0
      /\ BagCardinality(NotificationsOfProduct(p)) = 0
      /\ p \notin tick.failedProducts

\* The tick starts a check for every active product and reports all of them.
C11_TickStep ==
  /\ (tick.pc = "idle" /\ tick'.pc = "running") =>
       /\ tick'.batch = {p \in Products : products[p].isActive}
       /\ \A p \in tick'.batch :
            chk'[p].pc = (IF NoAdapter(p) THEN "fulfilled" ELSE "checkInventory")
  /\ (tick.pc = "running" /\ tick'.pc = "idle") =>
       /\ tick'.outcome = "reported"
       /\ tick'.succeeded + tick'.failed = Cardinality(tick.batch)
       /\ \A p \in tick.batch : NoAdapter(p) => p \notin tick'.failedProducts

C11_MissingAdapterSkipped == []C11_NoAdapterNoEffect /\ [][C11_TickStep]_vars

\* Without API key the second tick has skipped both products and reported them.
C11_Witness ==
  /\ ~apiKey /\ tick.no = 2 /\ tick.pc = "idle" /\ tick.outcome = "reported"
  /\ tick.succeeded = 2 /\ tick.failed = 0
  /\ \A p \in Products : products[p] = NewProduct(p, TRUE) /\ history[p] = <<>>

\* ---------------------------------------------------------------------- C12
\* A check that has failed in the publish of its change event has left the
\* product record with the observed status and the transition's time, and the
\* one history entry of the transition, in the stores; it has published no
\* event and enqueued no notification request.
C12_AfterFailedPublish ==
  \A p \in Products :
    (chk[p].pc = "rejected" /\ chk[p].error = "sendInventoryEvent") =>
      /\ StoredIsFresh(p)
      /\ products[p].lastStatusChangeAt = chk[p].now
      /\ Cardinality(EntriesOfCheck(p, chk[p].now)) = 1
      /\ BagCardinality(EventsOfCheck(p, chk[p].now)) = 0
      /\ BagCardinality(NotificationsOfCheck(p, chk[p].now)) = 0

\* A check that leaves its publish step without having published has failed,
\* in a step that touches neither the stores nor the queues, nor the tick or
\* any other check; a failed check takes no further step in the tick.
C12_FailedPublishStep ==
  \A p \in Products :
    /\ ( /\ chk[p].pc = "sendInventoryEvent" /\ chk'[p].pc # "sendInventoryEvent"
         /\ EventsOfProduct(p)' = EventsOfProduct(p) ) =>
         /\ chk'[p].pc = "rejected"
         /\ products' = products /\ history' = history
         /\ inventoryEvents' = inventoryEvents /\ notifications' = notifications
         /\ tick' = tick
         /\ \A q \in Products \ {p} : chk'[q] = chk[q]
    /\ chk[p].pc = "rejected" =>
         (chk'[p] = chk[p] \/ (chk'[p].pc = "idle" /\ tick'.pc = "idle" /\ NoEffects(p)))

C12_PublishFailureKeepsState == []C12_AfterFailedPublish /\ [][C12_FailedPublishStep]_vars

\* Product 1 went in stock and its publish failed; product 2's check, in the
\* same tick, has gone through to its notification.
C12_Witness ==
  /\ chk[1].pc = "rejected" /\ chk[1].error = "sendInventoryEvent" /\ chk[1].nowAvailable
  /\ Len(history[1]) = 1 /\ history[1][1].eventType = "in_stock"
  /\ products[1].currentStatus.online.available /\ products[1].lastStatusChangeAt = clock
  /\ BagCardinality(EventsOfProduct(1)) = 0
  /\ chk[2].pc = "fulfilled" /\ BagCardinality(NotificationsOfCheck(2, clock)) = 1

\* ---------------------------------------------------------------------- C13
\* The requested channels, in order, that the attempt is to try.
ToAttempt(prefs, channels) ==
  SelectSeq(channels, LAMBDA ch : HasTarget(prefs, ch))

\* The results a channel has contributed.
ResultsOf(results, channel) == SelectSeq(results, LAMBDA r : r.channel = channel)

\* Every result that stems from a thrown error is a failed result of an
\* attempted channel, and an attempt that has gone through its loop has tried
\* every requested channel that is enabled and has a target, whatever the
\* channels before it did.
C13_ThrownIsFailedResult ==
  /\ \A k \in DOMAIN disp.results :
       disp.results[k].error = "thrown" =>
         /\ ~disp.results[k].success
         /\ \E j \in DOMAIN disp.attempted : disp.attempted[j] = disp.results[k].channel
  /\ (disp.pc = "done" /\ disp.preferences.found) =>
       /\ disp.attempted = ToAttempt(disp.preferences, request.channels)
       /\ Len(ResultsOf(disp.results, "sms"))
            = Cardinality({j \in DOMAIN disp.attempted : disp.attempted[j] = "sms"})

\* A sender that throws adds exactly one failed result for its channel and the
\* loop moves on to the next requested channel: an SMS sender that cannot be
\* constructed, and a send call that rejects.
C13_ThrowStep ==
  /\ ( /\ disp.pc = "channels" /\ disp.i <= Len(request.channels)
       /\ request.channels[disp.i] = "sms" /\ HasTarget(disp.preferences, "sms")
       /\ ~acsEndpoint ) =>
       /\ disp'.results = Append(disp.results, [channel |-> "sms", success |-> FALSE,
                                                error |-> "thrown"])
       /\ disp'.pc = "channels" /\ disp'.i = disp.i + 1
  /\ disp.pc = "sendSms" =>
       /\ Len(disp'.results) = Len(disp.results) + 1
       /\ disp'.results[Len(disp'.results)].channel = "sms"
       /\ SubSeq(disp'.results, 1, Len(disp.results)) = disp.results
       /\ disp'.pc = "channels" /\ disp'.i = disp.i + 1

C13_SenderErrorBecomesResult == []C13_ThrownIsFailedResult /\ [][C13_ThrowStep]_vars

\* The SMS sender could not be constructed; push was still delivered.
C13_Witness ==
  /\ disp.pc = "done" /\ request.channels = <<"sms", "push">> /\ ~acsEndpoint
  /\ disp.attempted = <<"sms", "push">>
  /\ disp.results[1] = [channel |-> "sms", success |-> FALSE, error |-> "thrown"]
  /\ Len(disp.results) >= 2 /\ disp.results[2].channel = "push" /\ disp.results[2].success
  /\ disp.outcome = "success"

\* ---------------------------------------------------------------------- C14
\* The requested channels the loop has dealt with so far.
Processed ==
  SubSeq(request.channels, 1, IF disp.pc = "sendSms" THEN disp.i ELSE disp.i - 1)

\* At every point of an attempt that has read the preferences, the channels
\* attempted so far are exactly the requested channels, among those dealt with,
\* that are enabled and have a target; every result belongs to such a channel,
\* a skipped channel has none, and an attempt that signals failure has
\* attempted a channel and owes all its failed results to attempted channels.
C14_OnlyReadyChannelsAttempted ==
  (disp.pc \in {"channels", "sendSms", "done"} /\ disp.preferences.found) =>
    /\ disp.attempted = ToAttempt(disp.preferences, Processed)
    /\ \A k \in DOMAIN disp.results : HasTarget(disp.preferences, disp.results[k].channel)
    /\ \A j \in DOMAIN Processed :
         ~HasTarget(disp.preferences, Processed[j]) =>
           ResultsOf(disp.results, Processed[j]) = <<>>
    /\ (disp.pc = "done" /\ disp.outcome = "failure") =>
         /\ disp.attempted # <<>>
         /\ Failed(disp.results) = Len(disp.results)

\* SMS is enabled but has no phone number, push has a subscription: only push
\* was attempted and the skipped SMS channel did not make the attempt fail.
C14_Witness ==
  /\ disp.pc = "done" /\ request.channels = <<"sms", "push">>
  /\ disp.preferences.found
  /\ disp.preferences.sms.enabled /\ disp.preferences.sms.phoneNumber = ""
  /\ disp.preferences.push.enabled /\ disp.preferences.push.subscriptions = 1
  /\ disp.attempted = <<"push">>
  /\ disp.results = <<[channel |-> "push", success |-> TRUE, error |-> ""]>>
  /\ disp.outcome = "success"

\* ---------------------------------------------------------------------- C15
\* An attempt whose lookup has answered that the store holds no preferences is
\* over: it has invoked no sender, made no send, collected no result and
\* returned normally, and the transport has completed the message.
C15_AfterNoPreferences ==
  (disp.pc = "done" /\ ~disp.preferences.found /\ disp.error # "preferences") =>
    /\ ~preferences.found
    /\ disp.outcome = "success" /\ disp.error = ""
    /\ disp.attempted = <<>> /\ disp.smsSends = 0 /\ disp.results = <<>>
    /\ delivery.state = "completed"
    /\ attempts[Len(attempts)] = [outcome |-> "success", error |-> "", successful |-> 0]

\* The lookup answering "none" ends the attempt in that very step.
C15_NoPreferencesStep ==
  ( /\ disp.pc = "getUserPreferences" /\ ~preferences.found
    /\ disp' # disp /\ disp'.error # "preferences" ) =>
    /\ disp'.pc = "done" /\ disp'.outcome = "success"
    /\ delivery'.state = "completed" /\ delivery'.deliveryCount = delivery.deliveryCount

C15_NoPreferencesIsSuccess == []C15_AfterNoPreferences /\ [][C15_NoPreferencesStep]_vars

\* The preferences were removed after a first attempt had failed on SMS: the
\* second attempt finds none and completes the message.
C15_Witness ==
  /\ disp.pc = "done" /\ ~preferences.found /\ ~disp.preferences.found
  /\ request.channels = <<"sms">>
  /\ delivery.deliveryCount = 2 /\ delivery.state = "completed"
  /\ attempts = << [outcome |-> "failure", error |-> "allFailed", successful |-> 0],
                   [outcome |-> "success", error |-> "", successful |-> 0] >>

\* ---------------------------------------------------------------------- C16
\* The message has left the queue.
LeftQueue == delivery.state \in {"completed", "deadLettered"}

\* The message is dispatched at most the maximum delivery count times, one
\* logged attempt per finished dispatch.
C16_DispatchedAtMostMax ==
  /\ delivery.deliveryCount <= MaxDeliveryCount
  /\ Len(attempts) <= delivery.deliveryCount
  /\ LeftQueue => Len(attempts) = delivery.deliveryCount

\* A completed message was completed by an attempt that signalled success, all
\* attempts before it having signalled failure.
C16_CompletedBySuccess ==
  delivery.state = "completed" =>
    /\ attempts[Len(attempts)].outcome = "success"
    /\ \A k \in 1..(Len(attempts) - 1) : attempts[k].outcome = "failure"

\* A dead-lettered message has been dispatched the maximum delivery count
\* times, and on each of these attempts all attempted channels failed.
C16_DeadLetteredAfterAllChannelsFailed ==
  delivery.state = "deadLettered" =>
    /\ delivery.deliveryCount = MaxDeliveryCount
    /\ \A k \in DOMAIN attempts :
         attempts[k].outcome = "failure" /\ attempts[k].error = "allFailed"

\* C16 as claimed: every queued request eventually leaves the queue, completed
\* by an attempt that signals success or dead-lettered after all attempted
\* channels failed on each of the maximum delivery count attempts, and it is
\* never dispatched more often than that.
C16_EventuallyLeavesQueue ==
  /\ <>LeftQueue
  /\ []C16_DispatchedAtMostMax
  /\ []C16_CompletedBySuccess
  /\ []C16_DeadLetteredAfterAllChannelsFailed

\* What holds of the code: the request eventually leaves the queue for good
\* after at most the maximum delivery count of dispatches.
C16_LeavesQueueWithinMax ==
  /\ <>[]LeftQueue
  /\ []C16_DispatchedAtMostMax
  /\ []C16_CompletedBySuccess

\* ---------------------------------------------------------------------- C17
\* The first attempt failed on all channels and the redelivered second attempt
\* delivered something.
FailedThenSucceeded ==
  /\ Len(attempts) = 2
  /\ attempts[1].outcome = "failure" /\ attempts[1].error = "allFailed"
  /\ attempts[2].outcome = "success" /\ attempts[2].successful >= 1

\* No step of a dispatch attempt touches the history, the published change
\* events or the product records.
C17_NoMonitorSideEffects ==
  /\ history' = history
  /\ inventoryEvents' = inventoryEvents
  /\ products' = products

HowOften(seq, x) == Cardinality({j \in DOMAIN seq : seq[j] = x})

\* C17 amended: an attempt that signals failure has observed no successful
\* result, so after a failed first and a successful second attempt all
\* successful results are those of the second attempt: at most one per SMS
\* sent and one per push subscription, hence exactly one for a request whose
\* only channel is SMS (the request the monitor enqueues).
C17_SuccessesOfSecondAttempt ==
  /\ \A k \in DOMAIN attempts :
       attempts[k].outcome = "failure" => attempts[k].successful = 0
  /\ (FailedThenSucceeded /\ disp.pc = "done") =>
       /\ attempts[1].successful + attempts[2].successful = Successful(disp.results)
       /\ Successful(ResultsOf(disp.results, "sms")) <= HowOften(disp.attempted, "sms")
       /\ Successful(ResultsOf(disp.results, "push"))
            = HowOften(disp.attempted, "push") * disp.preferences.push.subscriptions
       /\ request.channels = <<"sms">> =>
            attempts[1].successful + attempts[2].successful = 1

C18_PayloadAsEnqueued ==
  /\ request.attemptCount = 0
  /\ request.maxAttempts = MaxAttempts
  /\ request.triggerEvent.eventType = "inventory.available"

\* No step of a dispatch attempt, first or redelivered, changes the payload or
\* sends a request to the 'notifications' queue; the deliveries are counted by
\* the transport alone.
C18_PayloadStep ==
  /\ request' = request
  /\ notifications' = notifications
  /\ delivery'.deliveryCount # delivery.deliveryCount =>
       (delivery.state = "queued" /\ delivery'.deliveryCount = delivery.deliveryCount + 1)

C18_PayloadImmutable == []C18_PayloadAsEnqueued /\ [][C18_PayloadStep]_vars

\* The third delivery presents the payload with attemptCount still 0.
C18_Witness ==
  /\ delivery.deliveryCount = 3 /\ disp.pc = "getUserPreferences"
  /\ Len(attempts) = 2
  /\ request.attemptCount = 0 /\ request.maxAttempts = 3
  /\ request.channels = <<"sms", "push">>
  /\ notifications = EmptyBag

\* ---------------------------------------------------------------------- C19
\* The text ends with a line break and the complete add-to-cart URL.
EndsWithUrl(text, url) ==
  /\ Len(text) >= Len(url) + 1
  /\ SubSeq(text, Len(text) - Len(url) + 1, Len(text)) = url
  /\ text[Len(text) - Len(url)] = 10

\* The lengths of the fixed parts of the text: the banner with its location
\* suffix (" online", or " at " and the location) and "!" and a line break
\* before the name; a line break and the URL after it.
HeadLen(location) == 11 + (IF location = <<>> THEN 7 ELSE 4 + Len(location)) + 2
TailLen(url) == 1 + Len(url)

\* The part of the text that stands for the product name.
NamePart(text, url, location) ==
  SubSeq(text, HeadLen(location) + 1, Len(text) - TailLen(url))

FailsFast ==
  /\ disp.smsSends = 0
  /\ disp.pc # "sendSms"
  /\ \A k \in DOMAIN disp.results :
       disp.results[k].channel = "sms" =>
         (~disp.results[k].success /\ disp.results[k].error = "thrown")
  /\ Len(ResultsOf(disp.results, "sms")) = HowOften(disp.attempted, "sms")

\* C20 as claimed: an SMS sender that lacks its endpoint or its from-number
\* never performs the external send; every send through it fails fast and is
\* recorded as a failed SMS result.
C20_UnconfiguredSenderNeverSends ==
  (~acsEndpoint \/ ~acsFromNumber) => FailsFast

\* What holds of the code: a sender without endpoint cannot be constructed and
\* never sends.
C20_NoEndpointNeverSends ==
  ~acsEndpoint => FailsFast

\* ---------------------------------------------------------------------- C21
\* The provider requests in flight to a retailer: checkInventory issues its
\* fetch when the check is started and the request is open until it answers.
InFlight(retailer) ==
  {p \in DOMAIN chk : chk[p].pc = "checkInventory" /\ chk[p].product.retailer = retailer}

\* C21: at every moment of a tick the number of in-flight provider requests to
\* Best Buy is at most the configured rate limit of 5 requests per second,
\* however many active products reference the retailer.
C21_InFlightWithinRateLimit == Cardinality(InFlight("bestbuy")) <= RequestsPerSecond

\* What the fan-out does instead: every active product of the tick that has an
\* adapter has its request in flight at once.
C21_InFlightIsWholeBatch ==
  [][TimerFires => InFlight("bestbuy")' =
                     {p \in getActiveProducts(products) :
                        getProvider(apiKey, products[p].retailer)}]_vars

\* ---------------------------------------------------------------------- C22
\* C22: every tick eventually terminates, even when a provider call never
\* answers: the call is timed out, counted as a failed check of its product,
\* and the tick reports.
C22_TickTerminates == (tick.pc = "running") ~> (tick.pc = "idle")

\* A check whose provider request stays unanswered is never settled.
C22_PendingIsForever ==
  [][\A p \in Products : chk[p].pc = "pending" => chk'[p].pc = "pending"]_vars

\* While a request is unanswered the tick has not reported.
C22_PendingBlocksTick ==
  (\E p \in Products : chk[p].pc = "pending") => tick.pc = "running"

\* ---------------------------------------------------------------------- C23
\* The entry of a product appended last.
LastEntry(h) == IF h = <<>> THEN NoEntry ELSE h[Len(h)]

\* A check works on the record the store holds: the one the latest check of
\* the product that got as far as its replace has persisted.
C23_ReadsPersistedState ==
  \A p \in Products :
    /\ chk[p].pc = "checkInventory" => chk[p].product = products[p]
    /\ chk[p].pc = "updateProduct" =>
         chk[p].wasAvailable = isAvailable(products[p].currentStatus)

\* A check never detects again the transition that the store already holds:
\* when the latest entry of the product records the transition the stored
\* record was last stamped with, a detecting check has the opposite verdict.
C23_NotDetectedTwice ==
  \A p \in Products :
    ( /\ chk[p].pc = "updateProduct" /\ chk[p].statusChanged
      /\ history[p] # <<>>
      /\ LastEntry(history[p]).timestamp = products[p].lastStatusChangeAt )
    => chk[p].nowAvailable # (LastEntry(history[p]).eventType = "in_stock")

\* The entries of a product are appended in the order of their timestamps.
C23_HistoryOrdered ==
  \A p \in Products : \A i, j \in DOMAIN history[p] :
    i < j => history[p][i].timestamp < history[p][j].timestamp

C23_OrderedStep ==
  \A p \in Products :
    /\ (chk[p].pc = "checkInventory" /\ chk'[p].pc = "updateProduct") =>
         ( chk'[p].statusChanged <=>
             isAvailable(chk'[p].result.status) # isAvailable(products[p].currentStatus) )
    /\ (chk[p].pc = "updateProduct" /\ chk'[p].pc \notin {"updateProduct", "rejected"}) =>
         isAvailable(products'[p].currentStatus) = chk[p].nowAvailable
    /\ (chk[p].pc = "getLatestHistoryEntry" /\ chk'[p].pc = "addHistoryEntry") =>
         chk'[p].previousEntry = LastEntry(history[p])
    /\ (chk[p].pc = "addHistoryEntry" /\ chk'[p].pc = "sendInventoryEvent") =>
         LastEntry(history'[p]).durationInStockMs =
           DurationInStock(LastEntry(history[p]), chk[p].nowAvailable, chk[p].now)

IsPrefix(g, h) == Len(g) <= Len(h) /\ SubSeq(h, 1, Len(g)) = g

C24_HistoryStep ==
  \A p \in DOMAIN history :
    /\ IsPrefix(history[p], history'[p])
    /\ Len(history'[p]) <= Len(history[p]) + 1
    /\ history'[p] # history[p] =>
         /\ chk[p].pc = "addHistoryEntry" /\ chk'[p].pc = "sendInventoryEvent"
         /\ LastEntry(history'[p]) = HistoryEntryOf(chk[p])

C25_FailsOnlyWhenAllChannelsFailed ==
  \A i \in DOMAIN attempts :
    attempts[i].outcome = "failure" => attempts[i].error = "allFailed"

\* What the handler does: besides the all-failed condition, the one failure
\* it passes to the transport is a rejected read of the preferences, before
\* any channel was attempted; an error of a channel sender never gets there.
C25_FailureIsAllFailedOrPreferences ==
  /\ \A i \in DOMAIN attempts :
       attempts[i].outcome = "failure" => attempts[i].error \in {"allFailed", "preferences"}
  /\ (disp.pc = "done" /\ disp.error = "preferences") =>
       /\ disp.attempted = <<>> /\ disp.results = <<>>
       /\ delivery.state \in {"queued", "deadLettered"}

\* ---------------------------------------------------------------------- C26
\* The steps a check may take from each of its awaited calls: the next call
\* in the fixed order when the call succeeded, its end when nothing is left to
\* do, or rejection.
SuccessorsOf(c) ==
  CASE c.pc = "updateProduct" ->
         {IF c.statusChanged THEN "getLatestHistoryEntry" ELSE "fulfilled", "rejected"}
    [] c.pc = "getLatestHistoryEntry" -> {"addHistoryEntry", "rejected"}
    [] c.pc = "addHistoryEntry" -> {"sendInventoryEvent", "rejected"}
    [] c.pc = "sendInventoryEvent" ->
         {IF c.nowAvailable THEN "queueNotification" ELSE "fulfilled", "rejected"}
    [] c.pc = "queueNotification" -> {"fulfilled", "rejected"}
    [] OTHER -> {}

\* A step of the check of p out of an awaited call: in the fixed order, with
\* the side effect of that call and no other when it succeeded, and with no
\* side effect at all when it was rejected.
C26_OrderedStep ==
  \A p \in Products :
    (chk[p].pc \in AwaitedCalls /\ chk'[p].pc # chk[p].pc) =>
      /\ chk'[p].pc \in SuccessorsOf(chk[p])
      /\ IF chk[p].pc = "updateProduct" /\ chk'[p].pc # "rejected"
         THEN products' = [products EXCEPT ![p] = chk[p].product]
         ELSE products' = products
      /\ IF chk[p].pc = "addHistoryEntry" /\ chk'[p].pc # "rejected"
         THEN history' = [history EXCEPT ![p] = Append(@, HistoryEntryOf(chk[p]))]
         ELSE history' = history
      /\ IF chk[p].pc = "sendInventoryEvent" /\ chk'[p].pc # "rejected"
         THEN inventoryEvents' = inventoryEvents (+) SetToBag({EventOf(chk[p])})
         ELSE inventoryEvents' = inventoryEvents
      /\ IF chk[p].pc = "queueNotification" /\ chk'[p].pc # "rejected"
         THEN notifications' = notifications (+) SetToBag({NotificationRequestOf(chk[p])})
         ELSE notifications' = notifications

\* Every enqueued notification has its published event, every published event
\* its history entry, and every history entry a product record replaced at the
\* time of the entry or later.
C26_EffectsImplyEarlierEffects ==
  /\ \A n \in DOMAIN notifications :
       BagCardinality(EventsOfCheck(n.triggerEvent.productId, n.timestamp)) >= 1
  /\ \A e \in DOMAIN inventoryEvents : EntriesOfCheck(e.productId, e.timestamp) # {}
  /\ \A p \in Products : \A i \in DOMAIN history[p] :
       /\ products[p].lastCheckedAt >= history[p][i].timestamp
       /\ products[p].lastStatusChangeAt >= history[p][i].timestamp
  /\ \A p \in Products :
       /\ chk[p].pc \in PipelineSteps => products[p] = chk[p].product
       /\ chk[p].pc \in {"sendInventoryEvent", "queueNotification"} =>
            EntriesOfCheck(p, chk[p].now) # {}
       /\ chk[p].pc = "queueNotification" =>
            BagCardinality(EventsOfCheck(p, chk[p].now)) >= 1

\* C26: within a check that detects a transition the side effects happen in
\* the order replace, read of the latest entry, history append, event publish,
\* notification enqueue (when now available), and a later step is performed
\* only when every earlier step succeeded.
C26_FixedOrderOfEffects == []C26_EffectsImplyEarlierEffects /\ [][C26_OrderedStep]_vars

\* The check of product 2 went through all five steps in its first tick: the
\* request is enqueued, and the event, the entry and the record are there.
C26_Witness ==
  /\ tick.no = 1 /\ chk[2].pc = "fulfilled" /\ chk[2].nowAvailable
  /\ \E n \in DOMAIN notifications :
       /\ n.triggerEvent.productId = 2 /\ n.timestamp = 1
       /\ n.triggerEvent \in DOMAIN inventoryEvents
  /\ Len(history[2]) = 1 /\ history[2][1].timestamp = 1
  /\ products[2].lastStatusChangeAt = 1 /\ isAvailable(products[2].currentStatus)

\* ---------------------------------------------------------------------- C27
\* No check of product p is in progress.
NoCheckInProgress(p) == chk[p].pc \in {"idle", "fulfilled", "rejected"}

\* The latest entry of p and the stored record of p tell the same verdict.
LatestEntryAgrees(p) ==
  (LastEntry(history[p]).eventType = "in_stock") <=> Verdict(products[p].currentStatus)

\* C27 as claimed: whenever no check of a product is in progress and the
\* product has a history entry, the event type of its latest entry agrees with
\* the verdict of the stored currentStatus, also after a tick in which the
\* history append or the publish failed.
C27_LatestEntryAgreesWithStored ==
  \A p \in Products :
    (NoCheckInProgress(p) /\ history[p] # <<>>) => LatestEntryAgrees(p)

\* C27 as amended: the latest entry agrees with the stored verdict whenever it
\* is the entry of the check that last changed the stored verdict (its
\* timestamp is the record's lastStatusChangeAt); and a settled check that has
\* changed the stored verdict and left no entry for it is one that was
\* rejected at the read of the latest entry or at the append.
C27_AgreesWhenLastChangeRecorded ==
  \A p \in Products :
    /\ ( /\ NoCheckInProgress(p) /\ history[p] # <<>>
         /\ LastEntry(history[p]).timestamp = products[p].lastStatusChangeAt )
       => LatestEntryAgrees(p)
    /\ ( /\ Settled(chk[p]) /\ chk[p].statusChanged
         /\ products[p].lastStatusChangeAt = chk[p].now
         /\ EntriesOfCheck(p, chk[p].now) = {} )
       => /\ chk[p].pc = "rejected"
          /\ chk[p].error \in {"getLatestHistoryEntry", "addHistoryEntry"}

\* After two ticks: product 1 went in stock and stayed, its entry agrees with
\* the record; product 2 went in stock, then out of stock with the append
\* rejected, so its latest entry says in_stock while the record says
\* unavailable.
C27_Witness ==
  /\ tick.no = 2 /\ tick.pc = "idle" /\ tick.outcome = "reported"
  /\ Len(history[1]) = 1 /\ history[1][1].timestamp = products[1].lastStatusChangeAt
  /\ Verdict(products[1].currentStatus) /\ history[1][1].eventType = "in_stock"
  /\ Len(history[2]) = 1 /\ history[2][1].eventType = "in_stock"
  /\ products[2].lastStatusChangeAt = 2 /\ ~Verdict(products[2].currentStatus)
  /\ 2 \in tick.failedProducts

PreviousEntryCurrent(c, h) == (LastEntry(h).eventType = "in_stock") <=> c.wasAvailable

\* An append of the check of p: its entry alternates with the previous entry
\* exactly when that entry still tells the stored verdict, and a first entry is
\* in_stock exactly when the stored verdict was still the initial one.
C28_AppendStep ==
  \A p \in Products :
    history'[p] # history[p] =>
      LET new == LastEntry(history'[p]) IN
        IF history[p] = <<>>
        THEN (new.eventType = "in_stock") <=> ~chk[p].wasAvailable
        ELSE (new.eventType # LastEntry(history[p]).eventType)
               <=> PreviousEntryCurrent(chk[p], history[p])

\* Entries written by checks of consecutive ticks alternate, and an entry
\* written in the first tick is in_stock.
C28_ConsecutiveChecksAlternate ==
  \A p \in Products :
    /\ \A i \in DOMAIN history[p] :
         history[p][i].timestamp = 1 => history[p][i].eventType = "in_stock"
    /\ \A i \in 1..(Len(history[p]) - 1) :
         history[p][i + 1].timestamp = history[p][i].timestamp + 1 =>
           history[p][i].eventType # history[p][i + 1].eventType

CrudFields(product) ==
  [ isActive |-> product.isActive, priority |-> product.priority,
    name |-> product.name, storeLocations |-> product.storeLocations ]

\* The replace of a check leaves the CRUD fields of the stored record alone.
C29_CheckStep ==
  \A p \in Products :
    (chk[p].pc = "updateProduct" /\ chk'[p].pc \notin {"updateProduct", "rejected"}) =>
      CrudFields(products'[p]) = CrudFields(products[p])

\* Once a PATCH has been answered with success, the CRUD fields of the stored
\* record are the ones it wrote (here no later PATCH changes them again).
C29_PatchedFieldsStay ==
  (patch.pc = "idle" /\ patch.outcome = "ok" /\ patch.no = MaxPatches) =>
    CrudFields(products[patch.id]) = CrudFields(patch.product)

\* C29: a poll check changes only the poll fields of the stored record, and
\* the fields owned by the CRUD layer keep the value the CRUD layer wrote last
\* under every interleaving of a check with a PATCH of the same product: a
\* product paused during a tick stays paused.
C29_CrudFieldsSurviveCheck == []C29_PatchedFieldsStay /\ [][C29_CheckStep]_vars

\* A check whose replace lands on the record it read at the start of its tick
\* writes the CRUD fields back as they were then.
C29_CheckWritesItsSnapshot ==
  [][\A p \in Products :
       (chk[p].pc = "updateProduct" /\ chk'[p].pc \notin {"updateProduct", "rejected"}) =>
         CrudFields(products'[p]) = CrudFields(chk[p].product)]_vars

\* Product 1 was paused by a PATCH answered with success while its check was
\* waiting for the retailer, and the replace of that check has stored it as
\* active again.
C29_PausedProductActiveAgain ==
  /\ patch.pc = "idle" /\ patch.outcome = "ok" /\ patch.id = 1
  /\ patch.body.fields = {"isActive"} /\ ~patch.body.isActive
  /\ tick.no = 1 /\ chk[1].pc = "fulfilled" /\ Polled(1)
  /\ products[1].isActive

\* ---------------------------------------------------------------------- C30
\* An attempt in progress works with the preferences as they are stored.
C30_AttemptUsesStored ==
  (delivery.state = "processing" /\ disp.pc \in {"channels", "sendSms"}) =>
    disp.preferences = preferences

\* Every attempt reads the stored preferences: it goes on to the channels with
\* exactly what is stored, returns at once when nothing is stored, and the
\* channels it has attempted when it ends are the requested ones that the
\* stored preferences enable and give a target. An attempt that follows one
\* failed on all channels, and finds the preferences removed or no requested
\* channel enabled, completes the message without a delivery.
C30_ResolveStep ==
  /\ (disp.pc = "getUserPreferences" /\ disp'.pc = "channels") =>
       (preferences.found /\ disp'.preferences = preferences)
  /\ (disp.pc = "getUserPreferences" /\ disp'.pc = "done" /\ disp'.error # "preferences") =>
       (~preferences.found /\ disp'.outcome = "success")
  /\ (disp.pc = "channels" /\ disp'.pc = "done") =>
       disp'.attempted = ToAttempt(preferences, request.channels)
  /\ ( /\ disp.pc # "done" /\ disp'.pc = "done" /\ disp'.error # "preferences"
       /\ attempts # <<>> /\ attempts[Len(attempts)].error = "allFailed"
       /\ (~preferences.found \/ ToAttempt(preferences, request.channels) = <<>>) )
     => /\ disp'.outcome = "success" /\ delivery'.state = "completed"
        /\ disp'.attempted = <<>> /\ disp'.results = <<>> /\ disp'.smsSends = 0

\* C30: the user preferences are resolved afresh at every delivery attempt:
\* on a redelivery the attempted channels are decided by the preferences
\* stored at that moment, and a request whose earlier attempt failed on all
\* channels is completed as success without any delivery when its channels
\* have been disabled or the preferences removed in the meantime.
C30_PreferencesResolvedPerAttempt == []C30_AttemptUsesStored /\ [][C30_ResolveStep]_vars

\* SMS was enabled with a number and the first attempt failed on it; SMS was
\* then disabled, and the second attempt completed the message with no send.
C30_Witness ==
  /\ disp.pc = "done" /\ request.channels = <<"sms">>
  /\ preferences.found /\ ~preferences.sms.enabled /\ preferences.sms.phoneNumber # ""
  /\ disp.preferences = preferences
  /\ disp.attempted = <<>> /\ disp.smsSends = 0
  /\ delivery.deliveryCount = 2 /\ delivery.state = "completed"
  /\ Len(attempts) = 2
  /\ attempts[1].outcome = "failure" /\ attempts[1].error = "allFailed"
  /\ attempts[2].outcome = "success"
====
